---- MODULE Spec2Model ----
(***************************************************************************)
(* Model of streamlit_app.py: load_data (the cached CSV loader), the       *)
(* sidebar's cascading selectboxes and sliders, and the two tabs (DGE      *)
(* volcano view, GSEA pathway view).  One script execution is one action:  *)
(* Streamlit runs the whole script top to bottom on start-up and again on  *)
(* every widget interaction.                                               *)
(*                                                                         *)
(* Numbers.  avg_log2FC and logfc_cutoff are in tenths (the slider's step  *)
(* is 0.1).  p_val_adj, padj and pval_cutoff are in units of 1/PvalUnit.   *)
(* pval_cutoff_log is in thousandths.  A table row is a record; a filtered *)
(* table is the sequence of the pandas index labels it keeps (label i is   *)
(* position i of the concatenated table, ignore_index=True).               *)
(***************************************************************************)
EXTENDS Integers, Sequences, FiniteSets, TLC

VARIABLES
    disk_dge, disk_gsea,        \* the six CSV files: [exists, rows]
    all_dge, all_gsea,          \* load_data's two unified tables
    warnings,                   \* paths st.warning reported as not found
    run_status,                 \* "not_run" | "load_failed" | "ok" | "tab1_exception"
    main_group, annotation_type, selected_dataset,
    cell_type_options, cell_type,
    comp1_options, comp1,
    comp2_options, comp2,
    logfc_cutoff, pval_cutoff_log, pval_cutoff, gsea_pathway_count,
    filtered_dge, significant, volcano_eps, tab1,
    filtered_gsea, tab2,
    last_annotation_type        \* what the annotation selectbox last returned

vars == <<disk_dge, disk_gsea, all_dge, all_gsea, warnings, run_status,
          main_group, annotation_type, selected_dataset,
          cell_type_options, cell_type, comp1_options, comp1,
          comp2_options, comp2,
          logfc_cutoff, pval_cutoff_log, pval_cutoff, gsea_pathway_count,
          filtered_dge, significant, volcano_eps, tab1,
          filtered_gsea, tab2, last_annotation_type>>

-----------------------------------------------------------------------------
(* Bounds of the model *)

\* longest DGE file on disk (rows)
MaxDgeRows == 5
\* longest GSEA file on disk (rows)
MaxGseaRows == 8
\* positions above its default the log2FC slider is moved to
NumLogfcSteps == 1
\* whole-number positions above its default the -log10 p-value slider is moved to
NumPvalSteps == 1
\* positions, from its minimum up, the pathway-count slider is moved to
NumCountSteps == 1

-----------------------------------------------------------------------------
(* Program constants *)

\* log2FC slider: min_value=0.0, max_value=4.0, value=0.5, in tenths
LogfcMin == 0
LogfcMax == 40
LogfcDefault == 5
\* -log10 p-value slider: min_value=0.0, max_value=50.0,
\* value=-np.log10(0.05) = 1.3010299956639813, in thousandths
PvalLogMin == 0
PvalLogMax == 50000
PvalLogDefault == 1301
\* pathway-count slider: min_value=5, max_value=50, value=20
PathwaysMin == 5
PathwaysMax == 50
PathwaysDefault == 20

\* p-values are counted in units of 1/PvalUnit
PvalUnit == 10 ^ 4

None == "None"

\* dict order of dge_files / gsea_files
DatasetKeys == <<"cd45pos_rrg", "cd45pos_jeff", "cd45neg_rrg">>

DgePath(name) ==
    CASE name = "cd45pos_rrg"  -> "data/cd45pos_rrgcell_degs_wilcoxon.csv"
      [] name = "cd45pos_jeff" -> "data/cd45pos_jeffcell_degs_wilcoxon.csv"
      [] name = "cd45neg_rrg"  -> "data/cd45neg_rrgcell_degs_wilcoxon.csv"

GseaPath(name) ==
    CASE name = "cd45pos_rrg"  -> "data/cd45pos_rrgcell_gsea.csv"
      [] name = "cd45pos_jeff" -> "data/cd45pos_jeffcell_gsea.csv"
      [] name = "cd45neg_rrg"  -> "data/cd45neg_rrgcell_gsea.csv"

-----------------------------------------------------------------------------
(* The files the model puts on disk.  Each file is absent, or holds a      *)
(* prefix of the rows below.  DGE source column "cell" is the cell type.   *)

DgeRow(c, a, b, g, fc, p) ==
    [cell |-> c, comp1 |-> a, comp2 |-> b, gene |-> g,
     avg_log2FC |-> fc, p_val_adj |-> p]

GseaRow(c, a, b, t, nes, q) ==
    [cell_type |-> c, comp1 |-> a, comp2 |-> b, Term |-> t,
     NES |-> nes, fdr_q_val |-> q]

DgeSource(name) ==
    CASE name = "cd45pos_rrg" ->
           << DgeRow("B", "KO", "WT", "g1", 12, 0),
              DgeRow("B", "KO", "WT", "g2", -7, 300),
              DgeRow("B", "KO", "HET", "g1", 8, 0),
              DgeRow("T", "WT", "HET", "g3", 3, 600),
              DgeRow("B", "WT", "HET", "g2", -12, 99),
              DgeRow("T", "KO", "HET", "g4", 30, 500) >>
      [] name = "cd45pos_jeff" ->
           << DgeRow("B", "KO", "WT", "g1", 6, 100) >>
      [] name = "cd45neg_rrg" ->
           << DgeRow("FIB", "HET", "WT", "g5", -9, 7) >>

GseaSource(name) ==
    CASE name = "cd45pos_rrg" ->
           << GseaRow("B", "KO", "WT", "p1", 15, 300),
              GseaRow("B", "KO", "WT", "p2", -21, 10),
              GseaRow("B", "KO", "HET", "p1", 8, 50),
              GseaRow("B", "KO", "WT", "p3", 11, 300),
              GseaRow("B", "KO", "WT", "p4", -9, 0),
              GseaRow("B", "KO", "WT", "p5", 17, 10000),
              GseaRow("B", "KO", "WT", "p6", -14, 10),
              GseaRow("B", "KO", "WT", "p7", 22, 5),
              GseaRow("B", "KO", "WT", "p8", -30, 1),
              GseaRow("T", "WT", "HET", "p2", 19, 40) >>
      [] name = "cd45pos_jeff" ->
           << GseaRow("B", "KO", "WT", "p1", -13, 200) >>
      [] name = "cd45neg_rrg" ->
           << GseaRow("FIB", "WT", "HET", "p3", 10, 45) >>

Min2(a, b) == IF a < b THEN a ELSE b

NoFile == [exists |-> FALSE, rows |-> <<>>]

\* a DGE file: absent, or any prefix of its source of at most maxRows rows
DgeFileChoices(src, maxRows) ==
    {NoFile} \cup
    {[exists |-> TRUE, rows |-> SubSeq(src, 1, n)] : n \in 0..Min2(maxRows, Len(src))}

\* a GSEA file: absent, or the longest prefix of its source of at most maxRows rows
GseaFileChoices(src, maxRows) ==
    {NoFile, [exists |-> TRUE, rows |-> SubSeq(src, 1, Min2(maxRows, Len(src)))]}

Range(s) == {s[i] : i \in 1..Len(s)}

Keys == Range(DatasetKeys)

-----------------------------------------------------------------------------------------------------------------------------------------------------
(* load_data *)

\* read_data: the frame, or None (with a warning) when the file is not found
read_data(file) ==
    IF file.exists THEN [is_none |-> FALSE, rows |-> file.rows]
    ELSE [is_none |-> TRUE, rows |-> <<>>]

\* df['dataset'] = name on a DGE frame; the later rename turns 'cell' into
\* 'cell_type'
TagDge(df, name) ==
    [i \in 1..Len(df) |->
        [dataset |-> name, cell_type |-> df[i].cell, comp1 |-> df[i].comp1,
         comp2 |-> df[i].comp2, gene |-> df[i].gene,
         avg_log2FC |-> df[i].avg_log2FC, p_val_adj |-> df[i].p_val_adj]]

\* df['dataset'] = name on a GSEA frame; the later rename turns 'Term' into
\* 'pathway' and 'FDR q-val' into 'padj'
TagGsea(df, name) ==
    [i \in 1..Len(df) |->
        [dataset |-> name, cell_type |-> df[i].cell_type, comp1 |-> df[i].comp1,
         comp2 |-> df[i].comp2, pathway |-> df[i].Term, NES |-> df[i].NES,
         padj |-> df[i].fdr_q_val]]

\* the for loop over dge_files.items(): the frames that loaded, in dict order
RECURSIVE dge_list(_, _)
dge_list(disk, k) ==
    IF k > Len(DatasetKeys) THEN <<>>
    ELSE LET name == DatasetKeys[k]
             df   == read_data(disk[name])
         IN  (IF df.is_none THEN <<>> ELSE <<TagDge(df.rows, name)>>)
             \o dge_list(disk, k + 1)

RECURSIVE gsea_list(_, _)
gsea_list(disk, k) ==
    IF k > Len(DatasetKeys) THEN <<>>
    ELSE LET name == DatasetKeys[k]
             df   == read_data(disk[name])
         IN  (IF df.is_none THEN <<>> ELSE <<TagGsea(df.rows, name)>>)
             \o gsea_list(disk, k + 1)

\* pd.concat(frames, ignore_index=True) of a non-empty list
RECURSIVE concat(_)
concat(frames) ==
    IF frames = <<>> THEN <<>> ELSE Head(frames) \o concat(Tail(frames))

\* pd.concat raises ValueError("No objects to concatenate") on an empty list
ConcatRaises(frames) == frames = <<>>

\* the st.warning calls of read_data over the DGE files, in the order tried
RECURSIVE DgeWarnings(_, _)
DgeWarnings(disk, k) ==
    IF k > Len(DatasetKeys) THEN <<>>
    ELSE (IF read_data(disk[DatasetKeys[k]]).is_none
          THEN <<DgePath(DatasetKeys[k])>> ELSE <<>>)
         \o DgeWarnings(disk, k + 1)

RECURSIVE GseaWarnings(_, _)
GseaWarnings(disk, k) ==
    IF k > Len(DatasetKeys) THEN <<>>
    ELSE (IF read_data(disk[DatasetKeys[k]]).is_none
          THEN <<GseaPath(DatasetKeys[k])>> ELSE <<>>)
         \o GseaWarnings(disk, k + 1)

\* load_data(): [ok, all_dge, all_gsea, warnings].  ok is FALSE when a concat
\* raised; the GSEA files are read only when the DGE concat did not raise.
load_data(ddisk, gdisk) ==
    LET dl == dge_list(ddisk, 1)
        gl == gsea_list(gdisk, 1)
        dw == DgeWarnings(ddisk, 1)
        gw == GseaWarnings(gdisk, 1)
    IN  IF ConcatRaises(dl)
        THEN [ok |-> FALSE, all_dge |-> <<>>, all_gsea |-> <<>>, warnings |-> dw]
        ELSE IF ConcatRaises(gl)
        THEN [ok |-> FALSE, all_dge |-> <<>>, all_gsea |-> <<>>, warnings |-> dw \o gw]
        ELSE [ok |-> TRUE, all_dge |-> concat(dl), all_gsea |-> concat(gl),
              warnings |-> dw \o gw]

-----------------------------------------------------------------------------
(* Sidebar: dataset selection and the cascading selectboxes *)

\* the labels of the model's files in Python's string order (sorted())
LabelOrder == <<"B", "FIB", "HET", "KO", "NK", "T", "WT">>

Rank(label) == CHOOSE i \in 1..Len(LabelOrder) : LabelOrder[i] = label

\* sorted(values): the distinct values in ascending string order
RECURSIVE sorted(_)
sorted(S) ==
    IF S = {} THEN <<>>
    ELSE LET m == CHOOSE x \in S : \A y \in S : Rank(x) <= Rank(y)
         IN  <<m>> \o sorted(S \ {m})

\* st.selectbox without a key.  The widget's identity is its label and its
\* options: with the same options as in the previous run the held value is
\* kept; with other options it is a new widget showing index 0; with no
\* options it returns None.
selectbox(options, held_options, held_value) ==
    IF options = <<>> THEN None
    ELSE IF options = held_options THEN held_value
    ELSE options[1]

\* a variant that formats the dataset name from both widgets in both branches
SelectedDataset_FormatsBoth(mg, an) ==
    IF mg = "cd45pos" THEN "cd45pos_" \o an
    ELSE "cd45neg_" \o last_annotation_type

\* selected_dataset from main_group and annotation_type
SelectedDataset(mg, an) ==
    IF mg = "cd45pos" THEN "cd45pos_" \o an ELSE "cd45neg_rrg"

\* dge_subset = all_dge[all_dge['dataset'] == selected_dataset] (index labels)
DgeSubset(dge, sd) == {i \in 1..Len(dge) : dge[i].dataset = sd}

\* options=sorted(dge_subset['cell_type'].unique())
CellTypeOptions(dge, sd) ==
    sorted({dge[i].cell_type : i \in DgeSubset(dge, sd)})

\* dge_cell_type_subset = dge_subset[dge_subset['cell_type'] == cell_type]
DgeCellTypeSubset(dge, sd, ct) ==
    {i \in DgeSubset(dge, sd) : dge[i].cell_type = ct}

\* options=sorted(dge_cell_type_subset['comp1'].unique())
Comp1Options(dge, sd, ct) ==
    sorted({dge[i].comp1 : i \in DgeCellTypeSubset(dge, sd, ct)})

\* a variant that takes comp2 from the whole cell-type subset
Comp2Options_NoComp1Filter(dge, sd, ct, c1) ==
    sorted({dge[i].comp2 : i \in DgeCellTypeSubset(dge, sd, ct)})

\* options=sorted(dge_cell_type_subset[... ['comp1'] == comp1]['comp2'].unique())
Comp2Options(dge, sd, ct, c1) ==
    sorted({dge[i].comp2 :
              i \in {j \in DgeCellTypeSubset(dge, sd, ct) : dge[j].comp1 = c1}})

\* 10**-pval_cutoff_log in units of 1/PvalUnit.  The default position gives
\* 0.049999999999999996, which separates whole units exactly as 0.05 does.
PvalCutoff(pl) ==
    IF pl = PvalLogDefault THEN (5 * PvalUnit) \div 100
    ELSE PvalUnit \div (10 ^ (pl \div 1000))

\* the slider positions the model's user moves to
LogfcChoices ==
    {v \in {LogfcMin, LogfcDefault} \cup
            {LogfcDefault + 5 * k : k \in 1..NumLogfcSteps} :
        v >= LogfcMin /\ v <= LogfcMax}

PvalLogChoices ==
    {v \in {PvalLogDefault} \cup {1000 * (k + 1) : k \in 1..NumPvalSteps} :
        v >= PvalLogMin /\ v <= PvalLogMax}

CountChoices ==
    {n \in {PathwaysDefault} \cup {PathwaysMin + k - 1 : k \in 1..NumCountSteps} :
        n >= PathwaysMin /\ n <= PathwaysMax}

-----------------------------------------------------------------------------
(* Tab 1: DGE volcano view *)

\* the index labels in S in ascending order (a boolean mask keeps row order)
RECURSIVE InOrder(_)
InOrder(S) ==
    IF S = {} THEN <<>>
    ELSE LET m == CHOOSE x \in S : \A y \in S : x <= y
         IN  <<m>> \o InOrder(S \ {m})

\* filtered_dge: rows of dge_cell_type_subset with the chosen comp1 and comp2
FilteredDge(dge, sd, ct, c1, c2) ==
    InOrder({i \in DgeCellTypeSubset(dge, sd, ct) :
                dge[i].comp1 = c1 /\ dge[i].comp2 = c2})

Abs(x) == IF x < 0 THEN -x ELSE x

\* a variant that compares the signed fold change
Significance_NoAbs(row, lf, pc) ==
    IF row.p_val_adj < pc /\ row.avg_log2FC > lf
    THEN "Significant" ELSE "Not Significant"

\* one row's 'significant' label
Significance(row, lf, pc) ==
    IF row.p_val_adj < pc /\ Abs(row.avg_log2FC) > lf
    THEN "Significant" ELSE "Not Significant"

\* filtered_dge['significant']
SignificantColumn(dge, fd, lf, pc) ==
    [k \in 1..Len(fd) |-> Significance(dge[fd[k]], lf, pc)]

\* filtered_dge['p_val_adj'][filtered_dge['p_val_adj'] > 0]
PositivePvals(dge, fd) ==
    {dge[fd[k]].p_val_adj : k \in {j \in 1..Len(fd) : dge[fd[j]].p_val_adj > 0}}

\* min() raises ValueError on an empty sequence
MinRaises(S) == S = {}

SetMin(S) == CHOOSE x \in S : \A y \in S : x <= y

\* the with tab1: block: [tab1, significant, volcano_eps]
Tab1(dge, fd, lf, pc) ==
    IF fd = <<>>
    THEN [tab1 |-> "no_data", significant |-> <<>>, volcano_eps |-> 0]
    ELSE LET sig == SignificantColumn(dge, fd, lf, pc)
             pos == PositivePvals(dge, fd)
         IN  IF MinRaises(pos)
             THEN [tab1 |-> "exception", significant |-> sig, volcano_eps |-> 0]
             ELSE [tab1 |-> "plot", significant |-> sig, volcano_eps |-> SetMin(pos)]

-----------------------------------------------------------------------------
(* Tab 2: GSEA pathway view *)

\* the GSEA rows matching the four selections (index labels)
GseaMatching(gsea, sd, ct, c1, c2) ==
    {i \in 1..Len(gsea) :
        /\ gsea[i].dataset = sd
        /\ gsea[i].cell_type = ct
        /\ gsea[i].comp1 = c1
        /\ gsea[i].comp2 = c2}

\* the order sort_values may give rows of equal padj: the default sort is not
\* a stable one, so equal keys come out in either index order
TieOrders == {"ascending_index", "descending_index"}

\* .sort_values('padj'): ascending padj
RECURSIVE sort_values(_, _, _)
sort_values(gsea, S, tie) ==
    IF S = {} THEN <<>>
    ELSE LET low == {i \in S : \A j \in S : gsea[i].padj <= gsea[j].padj}
             m   == IF tie = "ascending_index"
                    THEN CHOOSE x \in low : \A y \in low : x <= y
                    ELSE CHOOSE x \in low : \A y \in low : x >= y
         IN  <<m>> \o sort_values(gsea, S \ {m}, tie)

\* .head(n)
head(s, n) == SubSeq(s, 1, Min2(n, Len(s)))

\* a variant that truncates before it sorts
FilteredGsea_HeadBeforeSort(gsea, sd, ct, c1, c2, count, tie) ==
    sort_values(gsea,
                Range(head(InOrder(GseaMatching(gsea, sd, ct, c1, c2)), count)),
                tie)

\* filtered_gsea
FilteredGsea(gsea, sd, ct, c1, c2, count, tie) ==
    head(sort_values(gsea, GseaMatching(gsea, sd, ct, c1, c2), tie), count)

\* the with tab2: block, which runs only when tab 1 raised nothing
Tab2(fg, tab1state) ==
    IF tab1state = "exception" THEN "not_rendered"
    ELSE IF fg = <<>> THEN "no_data" ELSE "plot"

-----------------------------------------------------------------------------
(* One execution of the script below load_data, lines 59-200 *)

\* mg, an, lf, pl, cnt: the widget values the session holds for this run;
\* ct, c1, c2: the values it holds for the three dynamic selectboxes, each
\* held for the options of the previous run.  Each local of the script is
\* bound once, in the order the script assigns it.
RunScript(dge, gsea, mg, an, ct, c1, c2, lf, pl, cnt) ==
    \E sd \in {SelectedDataset(mg, an)} :
    \E ctopt \in {CellTypeOptions(dge, sd)} :
    \E ctval \in {selectbox(ctopt, cell_type_options, ct)} :
    \E c1opt \in {Comp1Options(dge, sd, ctval)} :
    \E c1val \in {selectbox(c1opt, comp1_options, c1)} :
    \E c2opt \in {Comp2Options(dge, sd, ctval, c1val)} :
    \E c2val \in {selectbox(c2opt, comp2_options, c2)} :
    \E pc \in {PvalCutoff(pl)} :
    \E fd \in {FilteredDge(dge, sd, ctval, c1val, c2val)} :
    \E t1 \in {Tab1(dge, fd, lf, pc)} :
        /\ main_group' = mg
        /\ annotation_type' = an
        /\ last_annotation_type' = IF an # None THEN an ELSE last_annotation_type
        /\ selected_dataset' = sd
        /\ cell_type_options' = ctopt
        /\ cell_type' = ctval
        /\ comp1_options' = c1opt
        /\ comp1' = c1val
        /\ comp2_options' = c2opt
        /\ comp2' = c2val
        /\ logfc_cutoff' = lf
        /\ pval_cutoff_log' = pl
        /\ pval_cutoff' = pc
        /\ gsea_pathway_count' = cnt
        /\ filtered_dge' = fd
        /\ significant' = t1.significant
        /\ volcano_eps' = t1.volcano_eps
        /\ tab1' = t1.tab1
        /\ \E tie \in TieOrders :
              filtered_gsea' =
                  IF t1.tab1 = "exception" THEN <<>>
                  ELSE FilteredGsea(gsea, sd, ctval, c1val, c2val, cnt, tie)
        /\ tab2' = Tab2(filtered_gsea', t1.tab1)
        /\ run_status' = IF t1.tab1 = "exception" THEN "tab1_exception" ELSE "ok"

-----------------------------------------------------------------------------
(* State machine *)

DiskDgeChoices ==
    {f \in [Keys -> UNION {DgeFileChoices(DgeSource(k), MaxDgeRows) : k \in Keys}] :
        \A k \in Keys : f[k] \in DgeFileChoices(DgeSource(k), MaxDgeRows)}

DiskGseaChoices ==
    {f \in [Keys -> UNION {GseaFileChoices(GseaSource(k), MaxGseaRows) : k \in Keys}] :
        \A k \in Keys : f[k] \in GseaFileChoices(GseaSource(k), MaxGseaRows)}

Init ==
    /\ disk_dge \in DiskDgeChoices
    /\ disk_gsea \in DiskGseaChoices
    /\ all_dge = <<>>
    /\ all_gsea = <<>>
    /\ warnings = <<>>
    /\ run_status = "not_run"
    /\ main_group = None
    /\ annotation_type = None
    /\ last_annotation_type = None
    /\ selected_dataset = None
    /\ cell_type_options = <<>>
    /\ cell_type = None
    /\ comp1_options = <<>>
    /\ comp1 = None
    /\ comp2_options = <<>>
    /\ comp2 = None
    /\ logfc_cutoff = LogfcDefault
    /\ pval_cutoff_log = PvalLogDefault
    /\ pval_cutoff = PvalCutoff(PvalLogDefault)
    /\ gsea_pathway_count = PathwaysDefault
    /\ filtered_dge = <<>>
    /\ significant = <<>>
    /\ volcano_eps = 0
    /\ tab1 = "not_rendered"
    /\ filtered_gsea = <<>>
    /\ tab2 = "not_rendered"

\* the widgets exist once a run got past load_data
Rendered == run_status \in {"ok", "tab1_exception"}

\* the first execution: load_data(), then the page with every widget at its
\* default (index 0 of each selectbox, value= of each slider)
Startup ==
    /\ run_status = "not_run"
    /\ LET L == load_data(disk_dge, disk_gsea)
       IN  /\ warnings' = L.warnings
           /\ all_dge' = L.all_dge
           /\ all_gsea' = L.all_gsea
           /\ IF L.ok
              THEN RunScript(L.all_dge, L.all_gsea, "cd45pos", "rrg",
                             None, None, None,
                             LogfcDefault, PvalLogDefault, PathwaysDefault)
              ELSE /\ run_status' = "load_failed"
                   /\ UNCHANGED <<main_group, annotation_type, selected_dataset,
                                  cell_type_options, cell_type, comp1_options,
                                  comp1, comp2_options, comp2, logfc_cutoff,
                                  pval_cutoff_log, pval_cutoff, gsea_pathway_count,
                                  filtered_dge, significant, volcano_eps, tab1,
                                  filtered_gsea, tab2, last_annotation_type>>
    /\ UNCHANGED <<disk_dge, disk_gsea>>

\* a rerun after a widget change; load_data() is served from the cache
Rerun(mg, an, ct, c1, c2, lf, pl, cnt) ==
    /\ Rendered
    /\ RunScript(all_dge, all_gsea, mg, an, ct, c1, c2, lf, pl, cnt)
    /\ UNCHANGED <<disk_dge, disk_gsea, all_dge, all_gsea, warnings>>

\* the annotation selectbox is rendered only for cd45pos: not rendered in a
\* run, its state is dropped, and it comes back at index 0
SelectMainGroup(g) ==
    /\ g # main_group
    /\ Rerun(g, IF g = "cd45pos" THEN "rrg" ELSE None,
             cell_type, comp1, comp2,
             logfc_cutoff, pval_cutoff_log, gsea_pathway_count)

SelectAnnotation(a) ==
    /\ main_group = "cd45pos"
    /\ a # annotation_type
    /\ Rerun(main_group, a, cell_type, comp1, comp2,
             logfc_cutoff, pval_cutoff_log, gsea_pathway_count)

SelectCellType(c) ==
    /\ c \in Range(cell_type_options)
    /\ c # cell_type
    /\ Rerun(main_group, annotation_type, c, comp1, comp2,
             logfc_cutoff, pval_cutoff_log, gsea_pathway_count)

SelectComp1(c) ==
    /\ c \in Range(comp1_options)
    /\ c # comp1
    /\ Rerun(main_group, annotation_type, cell_type, c, comp2,
             logfc_cutoff, pval_cutoff_log, gsea_pathway_count)

SelectComp2(c) ==
    /\ c \in Range(comp2_options)
    /\ c # comp2
    /\ Rerun(main_group, annotation_type, cell_type, comp1, c,
             logfc_cutoff, pval_cutoff_log, gsea_pathway_count)

SetLogfcCutoff(v) ==
    /\ v # logfc_cutoff
    /\ Rerun(main_group, annotation_type, cell_type, comp1, comp2,
             v, pval_cutoff_log, gsea_pathway_count)

SetPvalCutoffLog(v) ==
    /\ v # pval_cutoff_log
    /\ Rerun(main_group, annotation_type, cell_type, comp1, comp2,
             logfc_cutoff, v, gsea_pathway_count)

SetPathwayCount(n) ==
    /\ n # gsea_pathway_count
    /\ Rerun(main_group, annotation_type, cell_type, comp1, comp2,
             logfc_cutoff, pval_cutoff_log, n)

Next ==
    \/ Startup
    \/ \E g \in {"cd45pos", "cd45neg"} : SelectMainGroup(g)
    \/ \E a \in {"rrg", "jeff"} : SelectAnnotation(a)
    \/ \E c \in Range(LabelOrder) : SelectCellType(c)
    \/ \E c \in Range(LabelOrder) : SelectComp1(c)
    \/ \E c \in Range(LabelOrder) : SelectComp2(c)
    \/ \E v \in LogfcChoices : SetLogfcCutoff(v)
    \/ \E v \in PvalLogChoices : SetPvalCutoffLog(v)
    \/ \E n \in CountChoices : SetPathwayCount(n)

Spec == Init /\ [][Next]_vars

-----------------------------------------------------------------------------
(* Properties *)

\* the DGE rows of the selected dataset
RowsOfDataset == {i \in 1..Len(all_dge) : all_dge[i].dataset = selected_dataset}

\* the DGE rows matching dataset and cell type
RowsOfCellType == {i \in RowsOfDataset : all_dge[i].cell_type = cell_type}

\* the DGE rows matching dataset, cell type and comp1
RowsOfComp1 == {i \in RowsOfCellType : all_dge[i].comp1 = comp1}

\* the DGE rows matching all four selections
RowsOfComp2 == {i \in RowsOfComp1 : all_dge[i].comp2 = comp2}

\* the GSEA rows matching all four selections
GseaRowsOfSelection ==
    {i \in 1..Len(all_gsea) :
        /\ all_gsea[i].dataset = selected_dataset
        /\ all_gsea[i].cell_type = cell_type
        /\ all_gsea[i].comp1 = comp1
        /\ all_gsea[i].comp2 = comp2}

\* s lists exactly the set S, each value once
ListsExactly(s, S) == Range(s) = S /\ Len(s) = Cardinality(S)

\* C1: after any selections and for any loaded datasets, the option sets of
\* cell_type, comp1 and comp2 are non-empty, equal the distinct values of the
\* DGE rows matching the upstream fields, and hold the current value.
C1_OptionsNonEmptyAndHeld ==
    Rendered =>
        /\ cell_type_options # <<>>
        /\ ListsExactly(cell_type_options, {all_dge[i].cell_type : i \in RowsOfDataset})
        /\ cell_type \in Range(cell_type_options)
        /\ comp1_options # <<>>
        /\ ListsExactly(comp1_options, {all_dge[i].comp1 : i \in RowsOfCellType})
        /\ comp1 \in Range(comp1_options)
        /\ comp2_options # <<>>
        /\ ListsExactly(comp2_options, {all_dge[i].comp2 : i \in RowsOfComp1})
        /\ comp2 \in Range(comp2_options)

\* C2: when the selected dataset changes and the held cell_type is not among
\* the new dataset's cell types, cell_type becomes the first option of the
\* sorted new option set, and so a member of the new set.
C2_CellTypeResetToFirst ==
    [][ ( /\ Rendered
          /\ Rendered'
          /\ selected_dataset' # selected_dataset
          /\ cell_type # None
          /\ cell_type \notin {all_dge[i].cell_type : i \in RowsOfDataset'} )
        => ( /\ cell_type_options' # <<>>
             /\ cell_type' = cell_type_options'[1]
             /\ cell_type' \in {all_dge[i].cell_type : i \in RowsOfDataset'}
             /\ \A y \in {all_dge[i].cell_type : i \in RowsOfDataset'} :
                    Rank(cell_type') <= Rank(y) ) ]_vars

\* C3: when none of the three DGE files (or none of the three GSEA files) can
\* be read, load_data does not fail and the table of that analysis is empty.
C3_ZeroSourcesGiveEmptyTable ==
    run_status # "not_run" =>
        /\ (\A k \in Keys : ~disk_dge[k].exists)
              => (run_status # "load_failed" /\ all_dge = <<>>)
        /\ (\A k \in Keys : ~disk_gsea[k].exists)
              => (run_status # "load_failed" /\ all_gsea = <<>>)

\* C4: a non-empty filtered DGE set without a strictly positive p_val_adj
\* still gets its volcano plot, with a positive epsilon.
C4_AllZeroPvalsStillPlot ==
    ( /\ Rendered
      /\ filtered_dge # <<>>
      /\ \A k \in 1..Len(filtered_dge) : all_dge[filtered_dge[k]].p_val_adj <= 0 )
    => (tab1 = "plot" /\ volcano_eps > 0)

\* the rows of one dataset in a unified table, in table order
RowsTagged(table, name) == SelectSeq(table, LAMBDA r : r.dataset = name)

\* C5: for every subset of files present, load_data warns about each absent
\* file and continues; each unified table holds, per loaded file, that
\* file's rows in order under the file's key, and nothing else.
C5_LoadSkipsAbsentAndConcatenates ==
    run_status # "not_run" =>
        /\ run_status # "load_failed"
        /\ Range(warnings) = {DgePath(k) : k \in {j \in Keys : ~disk_dge[j].exists}}
                             \cup {GseaPath(k) : k \in {j \in Keys : ~disk_gsea[j].exists}}
        /\ Len(all_dge) = Len(disk_dge["cd45pos_rrg"].rows)
                          + Len(disk_dge["cd45pos_jeff"].rows)
                          + Len(disk_dge["cd45neg_rrg"].rows)
        /\ Len(all_gsea) = Len(disk_gsea["cd45pos_rrg"].rows)
                           + Len(disk_gsea["cd45pos_jeff"].rows)
                           + Len(disk_gsea["cd45neg_rrg"].rows)
        /\ \A i \in 1..Len(all_dge) : all_dge[i].dataset \in Keys
        /\ \A i \in 1..Len(all_gsea) : all_gsea[i].dataset \in Keys
        /\ \A k \in Keys :
              /\ Len(RowsTagged(all_dge, k)) = Len(disk_dge[k].rows)
              /\ \A n \in 1..Len(disk_dge[k].rows) :
                    /\ RowsTagged(all_dge, k)[n].gene = disk_dge[k].rows[n].gene
                    /\ RowsTagged(all_dge, k)[n].cell_type = disk_dge[k].rows[n].cell
                    /\ RowsTagged(all_dge, k)[n].p_val_adj = disk_dge[k].rows[n].p_val_adj
              /\ Len(RowsTagged(all_gsea, k)) = Len(disk_gsea[k].rows)
              /\ \A n \in 1..Len(disk_gsea[k].rows) :
                    /\ RowsTagged(all_gsea, k)[n].pathway = disk_gsea[k].rows[n].Term
                    /\ RowsTagged(all_gsea, k)[n].padj = disk_gsea[k].rows[n].fdr_q_val

\* C6: the comp2 options are exactly the distinct comp2 values of the DGE rows
\* whose dataset, cell_type and comp1 are the selected ones, and they are
\* non-empty for every comp1 that was offered.
C6_Comp2OptionsExact ==
    Rendered =>
        /\ ListsExactly(comp2_options, {all_dge[i].comp2 : i \in RowsOfComp1})
        /\ comp1 \in Range(comp1_options) => comp2_options # <<>>
        /\ \A c \in Range(comp1_options) :
              /\ Comp2Options(all_dge, selected_dataset, cell_type, c) # <<>>
              /\ ListsExactly(Comp2Options(all_dge, selected_dataset, cell_type, c),
                              {all_dge[i].comp2 :
                                 i \in {j \in RowsOfCellType : all_dge[j].comp1 = c}})

\* C6 witness: a cell type with two comp1 options, the selected one of them
\* paired with two comp2 values
C6_Witness ==
    /\ Rendered
    /\ Len(comp1_options) >= 2
    /\ Len(comp2_options) >= 2
    /\ comp1 \in Range(comp1_options)

\* C7: main_group cd45neg gives selected_dataset cd45neg_rrg whatever
\* annotation was chosen before; main_group cd45pos gives
\* cd45pos_<annotation_type> with annotation_type rrg or jeff.
C7_SelectedDataset ==
    Rendered =>
        /\ main_group \in {"cd45pos", "cd45neg"}
        /\ main_group = "cd45neg" => selected_dataset = "cd45neg_rrg"
        /\ main_group = "cd45pos" =>
              /\ annotation_type \in {"rrg", "jeff"}
              /\ annotation_type = "rrg" => selected_dataset = "cd45pos_rrg"
              /\ annotation_type = "jeff" => selected_dataset = "cd45pos_jeff"

\* C7 witness: cd45neg selected after the annotation had been set to jeff
C7_Witness ==
    /\ Rendered
    /\ main_group = "cd45neg"
    /\ last_annotation_type = "jeff"
    /\ selected_dataset = "cd45neg_rrg"

\* C8: filtered_gsea holds only rows matching the four selections, each once,
\* in ascending padj, min(gsea_pathway_count, matching rows) of them, and no
\* matching row left out has a smaller padj than a row kept.
C8_FilteredGseaTopN ==
    (Rendered /\ tab2 # "not_rendered") =>
        /\ gsea_pathway_count \in PathwaysMin..PathwaysMax
        /\ Range(filtered_gsea) \subseteq GseaRowsOfSelection
        /\ Cardinality(Range(filtered_gsea)) = Len(filtered_gsea)
        /\ \A i, j \in 1..Len(filtered_gsea) :
              i < j => all_gsea[filtered_gsea[i]].padj <= all_gsea[filtered_gsea[j]].padj
        /\ Len(filtered_gsea) =
              (IF gsea_pathway_count < Cardinality(GseaRowsOfSelection)
               THEN gsea_pathway_count ELSE Cardinality(GseaRowsOfSelection))
        /\ \A m \in GseaRowsOfSelection \ Range(filtered_gsea) :
              \A k \in 1..Len(filtered_gsea) :
                  all_gsea[m].padj >= all_gsea[filtered_gsea[k]].padj

\* C8 witness: more matching rows than gsea_pathway_count, so rows were cut
C8_Witness ==
    /\ Rendered
    /\ tab2 = "plot"
    /\ Cardinality(GseaRowsOfSelection) > gsea_pathway_count
    /\ Len(filtered_gsea) = gsea_pathway_count

\* a row is above both cutoffs, both comparisons strict
AboveCutoffs(row, lf, pc) ==
    /\ row.p_val_adj < pc
    /\ (row.avg_log2FC > lf \/ 0 - row.avg_log2FC > lf)

\* C9: a row is Significant iff p_val_adj < pval_cutoff and
\* |avg_log2FC| > logfc_cutoff; raising logfc_cutoff with pval_cutoff fixed,
\* or lowering pval_cutoff with logfc_cutoff fixed, on the same filtered set
\* never turns a Not Significant row into a Significant one.
C9_SignificanceMonotonic ==
    /\ [](Rendered =>
            /\ Len(significant) = Len(filtered_dge)
            /\ \A k \in 1..Len(filtered_dge) :
                  significant[k] =
                      (IF AboveCutoffs(all_dge[filtered_dge[k]], logfc_cutoff, pval_cutoff)
                       THEN "Significant" ELSE "Not Significant"))
    /\ [][ ( /\ Rendered
             /\ Rendered'
             /\ filtered_dge' = filtered_dge
             /\ \/ (logfc_cutoff' >= logfc_cutoff /\ pval_cutoff' = pval_cutoff)
                \/ (pval_cutoff' <= pval_cutoff /\ logfc_cutoff' = logfc_cutoff) )
           => \A k \in 1..Len(filtered_dge) :
                  significant'[k] = "Significant" => significant[k] = "Significant" ]_vars

\* C9 witness: a cutoff above its default, and a row that the default cutoffs
\* call Significant labelled Not Significant
C9_Witness ==
    /\ Rendered
    /\ \/ logfc_cutoff > LogfcDefault
       \/ pval_cutoff < PvalCutoff(PvalLogDefault)
    /\ \E k \in 1..Len(filtered_dge) :
          /\ significant[k] = "Not Significant"
          /\ AboveCutoffs(all_dge[filtered_dge[k]], LogfcDefault, PvalCutoff(PvalLogDefault))

\* C10: each tab shows its no-data indicator, and no plot or table, exactly
\* when its own filtered table is empty, whatever the other table holds.
C10_EmptyTablesPerTab ==
    Rendered =>
        /\ RowsOfComp2 = {} => tab1 = "no_data"
        /\ tab1 = "no_data" => RowsOfComp2 = {}
        /\ GseaRowsOfSelection = {} => tab2 = "no_data"
        /\ tab2 = "no_data" => GseaRowsOfSelection = {}

====
